---- MODULE Spec2Model ----
(***************************************************************************)
(* Model of src-tauri/src/main.rs: three Tauri commands                    *)
(* (generate_response, analyze_emotion, get_system_info) registered with   *)
(* the command dispatcher in main(), and the invocations the front-end     *)
(* issues against them.                                                    *)
(***************************************************************************)
EXTENDS Integers, Sequences, FiniteSets, TLC

(***************************************************************************)
(* Bounds of the model.                                                    *)
(***************************************************************************)
\* invocations that can be in flight at once
MaxCalls == 2
\* runs of equal characters in a prompt
MaxRuns == 2
\* lexicon words concatenated into a text
MaxWords == 3

(***************************************************************************)
(* Machine integers.  TLC's integers are 32 bits wide, so a usize / u64 is *)
(* kept as <<hi, lo>> with value hi * 2^16 + lo and 0 <= lo < 2^16.        *)
(***************************************************************************)
Limb == 2^16

Big(hi, lo) == <<hi, lo>>

Zero == Big(0, 0)

One == Big(0, 1)

BigAdd(a, b) ==
    LET lo == a[2] + b[2]
    IN  Big(a[1] + b[1] + (lo \div Limb), lo % Limb)

\* a * k for a small factor k
BigMul(a, k) ==
    LET lo == a[2] * k
    IN  Big(a[1] * k + (lo \div Limb), lo % Limb)

\* as_u32 without the truncation
as_u32_untruncated(x) == x

\* `x as u32` for a 64-bit x: the low 32 bits, i.e. x mod 2^32
as_u32(x) == Big(x[1] % Limb, x[2])

\* an integer literal of the source, digit by digit
RECURSIVE Dec(_)
Dec(digits) ==
    IF digits = <<>> THEN Zero
    ELSE BigAdd(BigMul(Dec(SubSeq(digits, 1, Len(digits) - 1)), 10),
                Big(0, digits[Len(digits)]))

\* an f32 literal num/den in [0.5, 1): its 24-bit significand, i.e. the
\* value in units of 2^-24, rounded to nearest, ties to even
f32(num, den) ==
    LET scaled == num * (2^24)
        q == scaled \div den
        r == scaled % den
    IN  IF 2 * r > den \/ (2 * r = den /\ q % 2 = 1) THEN q + 1 ELSE q

(***************************************************************************)
(* Strings.  A char is its Unicode scalar value.  A String is a sequence   *)
(* of runs <<c, n>>: the char c repeated n times (n a Big, n >= 1), so     *)
(* that strings of 2^32 bytes and more are values of the model.            *)
(***************************************************************************)
\* char::len_utf8
len_utf8(c) ==
    IF c < 128 THEN 1
    ELSE IF c < 2048 THEN 2
    ELSE IF c < 65536 THEN 3
    ELSE 4

\* a string literal, from its chars
Str(cs) == [i \in 1..Len(cs) |-> <<cs[i], One>>]

RECURSIVE Sum(_)
Sum(xs) == IF xs = <<>> THEN 0 ELSE xs[1] + Sum(Tail(xs))

\* hi * 2^16 + lo as a Big, for any lo >= 0
Carry(hi, lo) == Big(hi + (lo \div Limb), lo % Limb)

\* String::len: the length in bytes of the UTF-8 encoding, the sum over the
\* runs of n * len_utf8(c)
len(s) ==
    Carry(Sum([k \in 1..Len(s) |-> s[k][2][1] * len_utf8(s[k][1])]),
          Sum([k \in 1..Len(s) |-> s[k][2][2] * len_utf8(s[k][1])]))

\* the number of chars (s.chars().count()), the sum over the runs of n
chars_count(s) ==
    Carry(Sum([k \in 1..Len(s) |-> s[k][2][1]]),
          Sum([k \in 1..Len(s) |-> s[k][2][2]]))

\* k copies of the char c
Repeat(c, k) == [i \in 1..k |-> c]

\* The chars of s with every run cut to at most m chars.  A substring of m
\* chars never spans more than m chars of one run, so cutting the runs
\* changes no containment test for a pattern of m chars.
RECURSIVE Chars(_, _)
Chars(s, m) ==
    IF s = <<>> THEN <<>>
    ELSE LET n == s[1][2]
             k == IF n[1] > 0 \/ n[2] > m THEN m ELSE n[2]
         IN  Repeat(s[1][1], k) \o Chars(Tail(s), m)

\* str::contains(&str), for a pattern written as a literal
contains(s, pat) ==
    LET p == Chars(pat, 1)
        h == Chars(s, Len(p))
    IN  \E i \in 0..(Len(h) - Len(p)) : SubSeq(h, i + 1, i + Len(p)) = p

\* format with the placeholder left out of the template
format_no_placeholder(prefix, arg) == prefix

\* format!("<prefix>{}", arg)
format(prefix, arg) == prefix \o arg

(***************************************************************************)
(* Result<T, String>                                                       *)
(***************************************************************************)
Ok(v) == [tag |-> "Ok", value |-> v]

Err(e) == [tag |-> "Err", value |-> e]

(***************************************************************************)
(* Literals of the source                                                  *)
(***************************************************************************)
\* "로컬 LLM 응답: "
ResponsePrefix ==
    Str(<<47196, 52972, 32, 76, 76, 77, 32, 51025, 45813, 58, 32>>)

\* "기쁘"
Kw_GiPpeu == Str(<<44592, 49240>>)

\* "좋"
Kw_Joh == Str(<<51339>>)

\* "슬프"
Kw_SeulPeu == Str(<<49836, 54532>>)

\* "우울"
Kw_UUl == Str(<<50864, 50872>>)

\* "화나"
Kw_HwaNa == Str(<<54868, 45208>>)

\* "분노"
Kw_BunNo == Str(<<48516, 45432>>)

(***************************************************************************)
(* The three commands                                                      *)
(***************************************************************************)
\* Option<u32>
Some(x) == [tag |-> "Some", value |-> x]

\* generate_response counting chars instead of bytes
generate_response_chars(prompt) ==
    LET response == [text        |-> format(ResponsePrefix, prompt),
                     tokens_used |-> Some(as_u32(chars_count(prompt))),
                     model       |-> "phi-3.5-mini"]
    IN  Ok(response)

\* generate_response rejecting the empty prompt
generate_response_nonempty(prompt) ==
    IF prompt = <<>> THEN Err("empty prompt")
    ELSE Ok([text        |-> format(ResponsePrefix, prompt),
             tokens_used |-> Some(as_u32(len(prompt))),
             model       |-> "phi-3.5-mini"])

generate_response(prompt) ==
    LET response == [text        |-> format(ResponsePrefix, prompt),
                     tokens_used |-> Some(as_u32(len(prompt))),
                     model       |-> "phi-3.5-mini"]
    IN  Ok(response)

\* analyze_emotion testing the sad keywords before the happy ones
analyze_emotion_sad_first(text) ==
    LET emotion ==
            IF contains(text, Kw_SeulPeu) \/ contains(text, Kw_UUl) THEN "sad"
            ELSE IF contains(text, Kw_GiPpeu) \/ contains(text, Kw_Joh) THEN "happy"
            ELSE IF contains(text, Kw_HwaNa) \/ contains(text, Kw_BunNo) THEN "angry"
            ELSE "neutral"
    IN  Ok([emotion    |-> emotion,
            confidence |-> f32(8, 10),
            intensity  |-> f32(7, 10)])

\* analyze_emotion less confident when no keyword matches
analyze_emotion_unsure(text) ==
    LET emotion ==
            IF contains(text, Kw_GiPpeu) \/ contains(text, Kw_Joh) THEN "happy"
            ELSE IF contains(text, Kw_SeulPeu) \/ contains(text, Kw_UUl) THEN "sad"
            ELSE IF contains(text, Kw_HwaNa) \/ contains(text, Kw_BunNo) THEN "angry"
            ELSE "neutral"
    IN  Ok([emotion    |-> emotion,
            confidence |-> IF emotion = "neutral" THEN f32(5, 10) ELSE f32(8, 10),
            intensity  |-> f32(7, 10)])

analyze_emotion(text) ==
    LET emotion ==
            IF contains(text, Kw_GiPpeu) \/ contains(text, Kw_Joh) THEN "happy"
            ELSE IF contains(text, Kw_SeulPeu) \/ contains(text, Kw_UUl) THEN "sad"
            ELSE IF contains(text, Kw_HwaNa) \/ contains(text, Kw_BunNo) THEN "angry"
            ELSE "neutral"
        analysis == [emotion    |-> emotion,
                     confidence |-> f32(8, 10),
                     intensity  |-> f32(7, 10)]
    IN  Ok(analysis)

\* 8589934592u64
total_memory == Dec(<<8, 5, 8, 9, 9, 3, 4, 5, 9, 2>>)

\* 4294967296u64
available_memory == Dec(<<4, 2, 9, 4, 9, 6, 7, 2, 9, 6>>)

\* get_system_info with the two memory figures exchanged
get_system_info_swapped(os, arch) ==
    Ok([platform         |-> os,
        architecture     |-> arch,
        memory_available |->
            [total        |-> available_memory,
             available    |-> total_memory,
             percent_used |-> 50],
        llm_models       |->
            <<"phi-3.5-mini", "emotion-analyzer", "speech-recognition">>])

\* os, arch: std::env::consts::OS and ::ARCH of the build
get_system_info(os, arch) ==
    LET info == [platform         |-> os,
                 architecture     |-> arch,
                 memory_available |->
                     [total        |-> total_memory,
                      available    |-> available_memory,
                      percent_used |-> 50],
                 llm_models       |->
                     <<"phi-3.5-mini", "emotion-analyzer", "speech-recognition">>]
    IN  Ok(info)

(***************************************************************************)
(* Inputs the front-end sends                                              *)
(***************************************************************************)
\* 'h' (1 byte), U+00E9 (2 bytes), U+AE30 (3 bytes), U+1F600 (4 bytes)
PromptAlphabet == {104, 233, 44592, 128512}

\* run lengths 1, 2, 2^31, 2^32 - 1, 2^32
RunLens == {One, Big(0, 2), Big(32768, 0), Big(65535, 65535), Big(65536, 0)}

RECURSIVE SeqsUpTo(_, _)
SeqsUpTo(S, k) ==
    IF k = 0 THEN {<<>>}
    ELSE LET shorter == SeqsUpTo(S, k - 1)
         IN  shorter \cup {<<x>> \o t : x \in S, t \in shorter}

\* every prompt of at most MaxRuns runs
Prompts == SeqsUpTo(PromptAlphabet \X RunLens, MaxRuns)

\* the six keywords, pieces of them, and a letter
Lexicon ==
    {<<44592, 49240>>, <<51339>>, <<49836, 54532>>, <<50864, 50872>>,
     <<54868, 45208>>, <<48516, 45432>>,
     <<44592>>, <<49240>>, <<54532>>, <<50872>>, <<97>>}

RECURSIVE Phrases(_)
Phrases(k) ==
    IF k = 0 THEN {<<>>}
    ELSE LET shorter == Phrases(k - 1)
         IN  shorter \cup {w \o t : w \in Lexicon, t \in shorter}

\* 2^31 times "좋"; 2^31 times "우" then "울울"; 2^32 times "a" then "화"
LongTexts ==
    {<<<<51339, Big(32768, 0)>>>>,
     <<<<50864, Big(32768, 0)>>, <<50872, Big(0, 2)>>>>,
     <<<<97, Big(65536, 0)>>, <<54868, One>>>>}

\* every text of at most MaxWords words of the lexicon, and the long ones
Texts == {Str(cs) : cs \in Phrases(MaxWords)} \cup LongTexts

Commands == {"generate_response", "analyze_emotion", "get_system_info"}

\* an invocation as the front-end sends it: <<command name, argument>>
Requests ==
    ({"generate_response"} \X Prompts)
        \cup ({"analyze_emotion"} \X Texts)
        \cup {<<"get_system_info", <<>>>>}

\* "hello", "", 2^31 times U+AE30, 2^32 times 'h'
FewPrompts ==
    {Str(<<104, 101, 108, 108, 111>>), <<>>, <<<<44592, Big(32768, 0)>>>>,
     <<<<104, Big(65536, 0)>>>>}

\* "오늘 기쁘다", "", "우울화나"
FewTexts ==
    {Str(<<50724, 45720, 32, 44592, 49240, 45796>>), <<>>,
     Str(<<50864, 50872, 54868, 45208>>)}

\* the invocations issued while others are in flight
FewRequests ==
    ({"generate_response"} \X FewPrompts)
        \cup ({"analyze_emotion"} \X FewTexts)
        \cup {<<"get_system_info", <<>>>>}

\* (std::env::consts::OS, ::ARCH) of the builds modelled; usize is 64 bits
Targets == {<<"linux", "x86_64">>, <<"macos", "aarch64">>}

(***************************************************************************)
(* State                                                                   *)
(***************************************************************************)
VARIABLES
    pc,             \* main(): "start", "running" (inside run()), "panicked"
    invoke_handler, \* the dispatcher's table: command name -> handler
    calls,          \* the invocations in flight, by slot
    target          \* the build's <<OS, ARCH>>

vars == <<pc, invoke_handler, calls, target>>

Slots == 1..MaxCalls

None == [tag |-> "None"]

Idle == [state |-> "idle", cmd |-> "", arg |-> <<>>, result |-> None]

\* generate_handler! with get_system_info left out of the list
generate_handler_short ==
    [c \in {"generate_response", "analyze_emotion"} |-> c]

\* tauri::generate_handler![generate_response, analyze_emotion, get_system_info]
generate_handler == [c \in Commands |-> c]

Init ==
    /\ pc = "start"
    /\ invoke_handler = <<>>
    /\ calls = [i \in Slots |-> Idle]
    /\ target \in Targets

\* main(): the builder registers the handlers, then run() serves or fails
main ==
    /\ pc = "start"
    /\ invoke_handler' = generate_handler
    /\ pc' \in {"running", "panicked"}
    /\ UNCHANGED <<calls, target>>

\* the front-end invokes a registered command: the call's future is created
Invoke(i, req) ==
    /\ pc = "running"
    /\ calls[i].state = "idle"
    /\ req[1] \in DOMAIN invoke_handler
    /\ calls' = [calls EXCEPT ![i] =
                    [state |-> "pending", cmd |-> req[1], arg |-> req[2],
                     result |-> None]]
    /\ UNCHANGED <<pc, invoke_handler, target>>

\* the body of the handler bound to a command, applied to the argument
Handle(h, arg) ==
    CASE h = "generate_response" -> generate_response(arg)
      [] h = "analyze_emotion"   -> analyze_emotion(arg)
      [] h = "get_system_info"   -> get_system_info(target[1], target[2])

\* Poll taking the argument from a buffer the calls share (here: the
\* argument of the first call in flight) instead of the call's own
Poll_shared_arg(i) ==
    /\ calls[i].state = "pending"
    /\ LET j == CHOOSE j \in Slots :
                    /\ calls[j].state # "idle"
                    /\ \A k \in Slots : k < j => calls[k].state = "idle"
       IN  calls' = [calls EXCEPT ![i].state = "done",
                                  ![i].result =
                                      Handle(invoke_handler[calls[i].cmd], calls[j].arg)]
    /\ UNCHANGED <<pc, invoke_handler, target>>

\* the future of call i is polled: the handler has no await point, so its
\* body runs to its return in one step
Poll(i) ==
    /\ calls[i].state = "pending"
    /\ calls' = [calls EXCEPT ![i].state = "done",
                              ![i].result =
                                  Handle(invoke_handler[calls[i].cmd], calls[i].arg)]
    /\ UNCHANGED <<pc, invoke_handler, target>>

\* the result is sent to the front-end and the call is dropped
Respond(i) ==
    /\ calls[i].state = "done"
    /\ calls' = [calls EXCEPT ![i] = Idle]
    /\ UNCHANGED <<pc, invoke_handler, target>>

AllIdle == \A i \in Slots : calls[i].state = "idle"

\* calls overlap freely; few inputs
Next ==
    \/ main
    \/ \E i \in Slots, req \in FewRequests : Invoke(i, req)
    \/ \E i \in Slots : Poll(i)
    \/ \E i \in Slots : Respond(i)

Spec == Init /\ [][Next]_vars

\* the runtime polls every spawned future
FairSpec == Spec /\ \A i \in Slots : WF_vars(Poll(i))

\* one call at a time; every input
NextSerial ==
    \/ main
    \/ AllIdle /\ \E req \in Requests : Invoke(1, req)
    \/ \E i \in Slots : Poll(i)
    \/ \E i \in Slots : Respond(i)

SpecSerial == Init /\ [][NextSerial]_vars

(***************************************************************************)
(* Properties                                                              *)
(***************************************************************************)
\* call i has returned from command c
Returned(i, c) == calls[i].state = "done" /\ calls[i].cmd = c

\* t is x reduced modulo 2^32
Wraps(x, t) ==
    /\ t[2] = x[2]
    /\ t[1] \in 0..(Limb - 1)
    /\ (x[1] - t[1]) % Limb = 0

\* x < 2^32
Below2p32(x) == x[1] < Limb

\* every char of s is encoded in one byte
OneByteChars(s) == \A k \in 1..Len(s) : s[k][1] < 128

\* some char of s is encoded in more than one byte
HasWideChar(s) == \E k \in 1..Len(s) : s[k][1] >= 128

C2_TextIsPrefixThenPrompt ==
    \A i \in Slots :
        Returned(i, "generate_response") =>
            LET P == calls[i].arg
                r == calls[i].result.value
                n == Len(ResponsePrefix)
            IN  /\ Len(r.text) = n + Len(P)
                /\ SubSeq(r.text, 1, n) = ResponsePrefix
                /\ SubSeq(r.text, n + 1, Len(r.text)) = P
                /\ r.model = "phi-3.5-mini"

\* a call returned for a prompt of two runs, one of them of multi-byte chars
C2_Witness ==
    \E i \in Slots :
        /\ Returned(i, "generate_response")
        /\ Len(calls[i].arg) = 2
        /\ HasWideChar(calls[i].arg)
        /\ calls[i].result.tag = "Ok"

\* the char a occurs in T
Occurs1(T, a) == \E k \in 1..Len(T) : T[k][1] = a

\* the chars a, b (a # b) occur next to each other, in this order, in T:
\* a run of a is followed by a run of b
Occurs2(T, a, b) ==
    \E k \in 1..(Len(T) - 1) : T[k][1] = a /\ T[k + 1][1] = b

HappyIn(T) == Occurs2(T, 44592, 49240) \/ Occurs1(T, 51339)

SadIn(T) == Occurs2(T, 49836, 54532) \/ Occurs2(T, 50864, 50872)

AngryIn(T) == Occurs2(T, 54868, 45208) \/ Occurs2(T, 48516, 45432)

\* C3: analyze_emotion(T) returns happy if T contains "기쁘" or "좋", else sad
\* if it contains "슬프" or "우울", else angry if it contains "화나" or "분노",
\* else neutral; neutral exactly when T contains none of the six.
C3_FirstMatchPriority ==
    \A i \in Slots :
        Returned(i, "analyze_emotion") =>
            LET T == calls[i].arg
                e == calls[i].result.value.emotion
            IN  /\ e \in {"happy", "sad", "angry", "neutral"}
                /\ HappyIn(T) => e = "happy"
                /\ (~HappyIn(T) /\ SadIn(T)) => e = "sad"
                /\ (~HappyIn(T) /\ ~SadIn(T) /\ AngryIn(T)) => e = "angry"
                /\ e = "neutral" <=> (~HappyIn(T) /\ ~SadIn(T) /\ ~AngryIn(T))

\* a call returned happy for a text with keywords of all three categories,
\* the sad one first
C3_Witness ==
    \E i \in Slots :
        /\ Returned(i, "analyze_emotion")
        /\ HappyIn(calls[i].arg) /\ SadIn(calls[i].arg) /\ AngryIn(calls[i].arg)
        /\ calls[i].arg[1][1] \in {49836, 50864}
        /\ calls[i].result.value.emotion = "happy"

\* m * 2^-24 is the f32 nearest to num/den
IsF32Of(m, num, den) ==
    LET d == den * m - num * (2^24)
    IN  2 * (IF d < 0 THEN -d ELSE d) <= den

\* C4: analyze_emotion(T) returns confidence = 0.8 and intensity = 0.7,
\* whatever label is selected, and both lie in [0, 1].
C4_ConstantConfidence ==
    \A i \in Slots :
        Returned(i, "analyze_emotion") =>
            LET r == calls[i].result.value
            IN  /\ IsF32Of(r.confidence, 8, 10)
                /\ IsF32Of(r.intensity, 7, 10)
                /\ r.confidence \in 0..(2^24)
                /\ r.intensity \in 0..(2^24)

\* a call returned neutral
C4_Witness ==
    \E i \in Slots :
        /\ Returned(i, "analyze_emotion")
        /\ calls[i].arg # <<>>
        /\ calls[i].result.value.emotion = "neutral"

\* C5: every get_system_info() returns total = 8589934592 (2^33), available
\* = 4294967296 (2^32), percent_used = 50, llm_models = the three names in
\* order, and the platform and architecture of the build; two calls return
\* the same.
C5_SystemInfoFixed ==
    /\ \A i \in Slots :
           Returned(i, "get_system_info") =>
               LET r == calls[i].result.value
               IN  /\ r.memory_available.available = Big(Limb, 0)
                   /\ r.memory_available.total = Big(2 * Limb, 0)
                   /\ r.memory_available.percent_used = 50
                   /\ r.llm_models =
                          <<"phi-3.5-mini", "emotion-analyzer", "speech-recognition">>
                   /\ <<r.platform, r.architecture>> = target
    /\ \A i, j \in Slots :
           Returned(i, "get_system_info") /\ Returned(j, "get_system_info")
               => calls[i].result = calls[j].result

\* get_system_info has returned to two calls, one after the other
C5_Witness ==
    \E i, j \in Slots :
        /\ i # j
        /\ Returned(i, "get_system_info")
        /\ Returned(j, "get_system_info")

Pending(i) == calls[i].state = "pending"

Succeeded(i) == calls[i].state = "done" /\ calls[i].result.tag = "Ok"

\* C6: no call of the three commands returns the error outcome, and every
\* call returns: a pending call leads to a success result.
C6_AlwaysOk ==
    /\ [](\A i \in Slots : calls[i].state = "done" => calls[i].result.tag = "Ok")
    /\ \A i \in Slots : Pending(i) ~> Succeeded(i)

\* generate_response returned for the empty prompt while another call is
\* still in flight
C6_Witness ==
    \E i, j \in Slots :
        /\ i # j
        /\ Returned(i, "generate_response")
        /\ calls[i].arg = <<>>
        /\ calls[i].result.tag = "Ok"
        /\ calls[j].state # "idle"

\* what a call of command c with argument a returns when it runs alone
Alone(c, a) ==
    CASE c = "generate_response" -> generate_response(a)
      [] c = "analyze_emotion"   -> analyze_emotion(a)
      [] c = "get_system_info"   -> get_system_info(target[1], target[2])

\* C7: however the calls interleave, the result of a call is the one the
\* call returns alone, and a step of one call changes no other call.
C7_CallsIndependent ==
    /\ [](\A i \in Slots :
              calls[i].state = "done" =>
                  calls[i].result = Alone(calls[i].cmd, calls[i].arg))
    /\ [][/\ \A i, j \in Slots :
                 (calls'[i] # calls[i] /\ calls'[j] # calls[j]) => i = j
          /\ \A i \in Slots :
                 calls[i].state # "idle" /\ calls'[i].state # "idle"
                     => calls'[i].cmd = calls[i].cmd /\ calls'[i].arg = calls[i].arg
          /\ target' = target]_vars

\* two calls of one command with different arguments have returned
\* different results
C7_Witness ==
    \E i, j \in Slots :
        /\ Returned(i, "generate_response")
        /\ Returned(j, "generate_response")
        /\ calls[i].arg # calls[j].arg
        /\ calls[i].result # calls[j].result

\* C8: the invocation table is built once, at startup, before any call is
\* served; from then on it holds exactly generate_response, analyze_emotion
\* and get_system_info, each bound to its handler, and no step changes it.
C8_TableBuiltOnce ==
    /\ [](pc = "start" => invoke_handler = <<>> /\ AllIdle)
    /\ [](pc # "start" =>
              /\ DOMAIN invoke_handler =
                     {"generate_response", "analyze_emotion", "get_system_info"}
              /\ \A c \in DOMAIN invoke_handler : invoke_handler[c] = c)
    /\ [](\A i \in Slots :
              calls[i].state # "idle" =>
                  pc = "running" /\ calls[i].cmd \in DOMAIN invoke_handler)
    /\ [][invoke_handler' # invoke_handler => pc = "start"]_vars

\* calls of two different commands are being served from the table
C8_Witness ==
    \E i, j \in Slots :
        /\ pc = "running"
        /\ Returned(i, "get_system_info")
        /\ Returned(j, "analyze_emotion")
        /\ Cardinality(DOMAIN invoke_handler) = 3

\* C9 as stated: tokens_used is never absent, lies in 0..2^32-1, is 0 for
\* the empty prompt, and equals the number of chars of P exactly when every
\* char of P takes one byte and P is shorter than 2^32 bytes.
C9_CharCountIffOneByte ==
    \A i \in Slots :
        Returned(i, "generate_response") =>
            LET P == calls[i].arg
                t == calls[i].result.value.tokens_used
            IN  /\ t.tag = "Some"
                /\ Below2p32(t.value)
                /\ P = <<>> => t.value = Zero
                /\ t.value = chars_count(P)
                       <=> (OneByteChars(P) /\ Below2p32(len(P)))

\* C9 amended: tokens_used is the UTF-8 byte length of P modulo 2^32, never
\* absent, in 0..2^32-1, 0 for the empty prompt; it equals the number of
\* chars of P if every char of P takes one byte and P is shorter than 2^32
\* bytes, and, for P shorter than 2^32 bytes, only if every char takes one
\* byte.
C9_TokensAreByteLengthMod2p32 ==
    \A i \in Slots :
        Returned(i, "generate_response") =>
            LET P == calls[i].arg
                t == calls[i].result.value.tokens_used
            IN  /\ t.tag = "Some"
                /\ Below2p32(t.value) /\ t.value[1] >= 0 /\ t.value[2] >= 0
                /\ Wraps(len(P), t.value)
                /\ P = <<>> => t.value = Zero
                /\ (OneByteChars(P) /\ Below2p32(len(P)))
                       => t.value = chars_count(P)
                /\ (Below2p32(len(P)) /\ t.value = chars_count(P))
                       => OneByteChars(P)

\* a call returned for a prompt of 2^32 bytes or more: the count wrapped
C9_Witness ==
    \E i \in Slots :
        /\ Returned(i, "generate_response")
        /\ ~Below2p32(len(calls[i].arg))
        /\ calls[i].result.value.tokens_used # Some(len(calls[i].arg))

====
